---- MODULE Spec2Model ----
(***************************************************************************)
(* A model of cargo-cacher's identity model (src/src/lib.rs), lock         *)
(* ingestion (read_lock_file) and mirror engine (src/src/mirror.rs).       *)
(*                                                                         *)
(* Strings are sequences of byte values (ASCII codes), so that formatting  *)
(* ("{ident}-{rev}") is concatenation and String's Ord is the bytewise     *)
(* lexicographic order.                                                    *)
(***************************************************************************)
EXTENDS Integers, Sequences, FiniteSets, TLC

VARIABLES
    \* ---- locked_crates (mirror.rs:45-89)
    krates,      \* ctx.krates
    store,       \* the keys the backend holds
    sortImpl,    \* which comparison the build's Vec::sort calls
    pc,          \* position of the controlling thread
    listed,      \* what list() returned: [res, keys], res None before the call
    names,       \* the local `names`
    to_mirror,   \* the local `to_mirror`
    fetchRes,    \* per task: outcome of fetch::from_crates_io
    uploadRes,   \* per task: outcome of ctx.backend.upload
    result,      \* what locked_crates returned
    rerun,       \* whether locked_crates has been invoked a second time
    prev,        \* history: the tasks and outcomes of the first invocation
    \* ---- Krate comparisons (lib.rs:87-104)
    ka, kb,      \* the two operands
    eqRes,       \* a == b
    cmpRes,      \* Ord::cmp(a, b)
    pcmpRes,     \* PartialOrd::partial_cmp(a, b)
    cidRes,      \* the two rendered CloudIds, <<>> before rendering
    \* ---- registry_index (mirror.rs:6-43)
    ipc,         \* position in registry_index
    now,         \* chrono::Utc::now()
    max_stale,   \* the caller's freshness window
    snapshot,    \* the index snapshot the backend holds
    updatedRes,  \* what ctx.backend.updated returned
    indexFetch,  \* outcome of fetch::registry
    indexUpload, \* outcome of ctx.backend.upload
    iresult,     \* what registry_index returned
    indexKey,    \* the key the index snapshot was uploaded under
    \* ---- read_lock_file (lib.rs:213-290)
    lpc,         \* position in read_lock_file
    pkgs,        \* locks.package
    metadata,    \* locks.metadata
    idx,         \* how many records the loop has consumed
    lookup,      \* the local `lookup` buffer
    lkrates,     \* the local `krates`
    lresult,     \* what read_lock_file returned
    meta0,       \* history: locks.metadata as parsed from the file
    fates        \* history: per consumed record, what it pushed and the
                 \* metadata before and after it

mirrorVars == <<krates, store, sortImpl, pc, listed, names, to_mirror,
                fetchRes, uploadRes, result, rerun, prev>>
ordVars == <<ka, kb, eqRes, cmpRes, pcmpRes, cidRes>>
indexVars == <<ipc, now, max_stale, snapshot, updatedRes, indexFetch, indexUpload,
               iresult, indexKey>>
lockVars == <<lpc, pkgs, metadata, idx, lookup, lkrates, lresult, meta0, fates>>
vars == <<mirrorVars, ordVars, indexVars, lockVars>>

None == "None"

-----------------------------------------------------------------------------
(* Bounds *)

MaxKrates == 3      \* longest ctx.krates
MaxStore == 2       \* most keys in the backend before the call
MaxTime == 2        \* latest instant of the clock and of a timestamp
MaxPkgs == 3        \* most package records in a lock file

-----------------------------------------------------------------------------
(* Strings *)

Dash == 45          \* '-'

\* str::cmp: bytewise lexicographic
RECURSIVE StrCmp(_, _)
StrCmp(a, b) ==
    IF a = <<>> /\ b = <<>> THEN "Equal"
    ELSE IF a = <<>> THEN "Less"
    ELSE IF b = <<>> THEN "Greater"
    ELSE IF Head(a) < Head(b) THEN "Less"
    ELSE IF Head(a) > Head(b) THEN "Greater"
    ELSE StrCmp(Tail(a), Tail(b))

\* lexicographic combination of two orderings (Ordering::then)
Then(o1, o2) == IF o1 = "Equal" THEN o2 ELSE o1

-----------------------------------------------------------------------------
(* Source and Krate *)

CratesIo(chksum) ==
    [tag |-> "CratesIo", chksum |-> chksum, url |-> <<>>, rev |-> <<>>, ident |-> <<>>]

Git(url, rev, ident) ==
    [tag |-> "Git", chksum |-> <<>>, url |-> url, rev |-> rev, ident |-> ident]

Krate(name, version, source) ==
    [name |-> name, version |-> version, source |-> source]

\* #[derive(PartialEq)] on Source: same variant, all fields equal
SourceEq(s, t) ==
    /\ s.tag = t.tag
    /\ IF s.tag = "CratesIo"
       THEN StrCmp(s.chksum, t.chksum) = "Equal"
       ELSE /\ StrCmp(s.url, t.url) = "Equal"
            /\ StrCmp(s.rev, t.rev) = "Equal"
            /\ StrCmp(s.ident, t.ident) = "Equal"

\* #[derive(Ord)] on Source: variants in declaration order, then the fields
\* in declaration order
SourceCmp(s, t) ==
    IF s.tag # t.tag
    THEN (IF s.tag = "CratesIo" THEN "Less" ELSE "Greater")
    ELSE IF s.tag = "CratesIo"
    THEN StrCmp(s.chksum, t.chksum)
    ELSE Then(StrCmp(s.url, t.url),
              Then(StrCmp(s.rev, t.rev), StrCmp(s.ident, t.ident)))

\* a naive derive: equality over every field
KrateEqAllFields(a, b) ==
    /\ StrCmp(a.name, b.name) = "Equal"
    /\ StrCmp(a.version, b.version) = "Equal"
    /\ SourceEq(a.source, b.source)

\* impl PartialEq for Krate
KrateEq(a, b) == SourceEq(a.source, b.source)

\* impl PartialOrd for Krate
KratePartialCmp(a, b) == SourceCmp(a.source, b.source)

\* #[derive(Ord)] on Krate: the fields in declaration order
KrateCmp(a, b) ==
    Then(StrCmp(a.name, b.name),
         Then(StrCmp(a.version, b.version), SourceCmp(a.source, b.source)))

\* impl Display for CloudId
CloudId(k) ==
    IF k.source.tag = "CratesIo"
    THEN k.source.chksum
    ELSE k.source.ident \o <<Dash>> \o k.source.rev

-----------------------------------------------------------------------------
(* Input pools *)

NameA == <<97>>
NameB == <<98>>
Ver1 == <<49>>
Ver2 == <<50>>
Rev7 == <<57, 49, 51, 53, 55, 49, 55>>          \* "9135717"
RevLen == 7         \* the length a revision is cut to

SrcX == CratesIo(<<120>>)
SrcY == CratesIo(<<121>>)
SrcG == Git(<<117>>, Rev7, <<103>>)
SrcH == Git(<<117, 117>>, Rev7, <<104>>)

\* a registry Source whose checksum field reads "g-9135717"
SrcC == CratesIo(<<103, Dash>> \o Rev7)

OrdSources == {SrcX, SrcY, SrcG, SrcH, SrcC}
OrdKrates ==
    {Krate(n, v, s) : n \in {NameA, NameB}, v \in {Ver1, Ver2}, s \in OrdSources}

-----------------------------------------------------------------------------
(* Krate comparisons applied to every pair of the pool *)

InitOrd ==
    /\ ka \in OrdKrates
    /\ kb \in OrdKrates
    /\ eqRes = None
    /\ cmpRes = None
    /\ pcmpRes = None
    /\ cidRes = <<>>

ApplyEq ==
    /\ eqRes = None
    /\ eqRes' = (IF KrateEq(ka, kb) THEN "true" ELSE "false")
    /\ UNCHANGED <<ka, kb, cmpRes, pcmpRes, cidRes>>

ApplyCmp ==
    /\ cmpRes = None
    /\ cmpRes' = KrateCmp(ka, kb)
    /\ UNCHANGED <<ka, kb, eqRes, pcmpRes, cidRes>>

ApplyPartialCmp ==
    /\ pcmpRes = None
    /\ pcmpRes' = KratePartialCmp(ka, kb)
    /\ UNCHANGED <<ka, kb, eqRes, cmpRes, cidRes>>

\* lib.rs:144-151: both operands rendered as CloudIds
ApplyCloudId ==
    /\ cidRes = <<>>
    /\ cidRes' = <<CloudId(ka), CloudId(kb)>>
    /\ UNCHANGED <<ka, kb, eqRes, cmpRes, pcmpRes>>

\* no earlier invocation
NoPrev == [to_mirror |-> <<>>, fetchRes |-> <<>>, uploadRes |-> <<>>, result |-> None]

IdleMirror ==
    /\ krates = <<>>
    /\ store = {}
    /\ sortImpl = "lt"
    /\ pc = "Idle"
    /\ listed = [res |-> None, keys |-> <<>>]
    /\ names = <<>>
    /\ to_mirror = <<>>
    /\ fetchRes = <<>>
    /\ uploadRes = <<>>
    /\ result = None
    /\ rerun = FALSE
    /\ prev = NoPrev

IdleLock ==
    /\ lpc = "Idle"
    /\ pkgs = <<>>
    /\ metadata = <<>>
    /\ idx = 0
    /\ lookup = <<>>
    /\ lkrates = <<>>
    /\ lresult = None
    /\ meta0 = <<>>
    /\ fates = <<>>

IdleIndex ==
    /\ ipc = "Idle"
    /\ now = 0
    /\ max_stale = 0
    /\ snapshot = "absent"
    /\ updatedRes = [res |-> None, t |-> 0]
    /\ indexFetch = None
    /\ indexUpload = None
    /\ iresult = None
    /\ indexKey = <<>>

NextOrd ==
    \/ ApplyEq /\ UNCHANGED <<mirrorVars, indexVars, lockVars>>
    \/ ApplyCmp /\ UNCHANGED <<mirrorVars, indexVars, lockVars>>
    \/ ApplyPartialCmp /\ UNCHANGED <<mirrorVars, indexVars, lockVars>>
    \/ ApplyCloudId /\ UNCHANGED <<mirrorVars, indexVars, lockVars>>

InitOrdOnly == InitOrd /\ IdleMirror /\ IdleIndex /\ IdleLock

SpecOrd == InitOrdOnly /\ [][NextOrd]_vars

-----------------------------------------------------------------------------
(* Vec operations used by locked_crates *)

Range(s) == {s[i] : i \in DOMAIN s}

\* every enumeration of a set of keys as a Vec (list() promises no order)
Enumerations(S) ==
    {f \in [1..Cardinality(S) -> S] : \A i, j \in 1..Cardinality(S) : f[i] = f[j] => i = j}

\* insert x into the sorted run s, after every element that is not greater
RECURSIVE InsertStr(_, _)
InsertStr(s, x) ==
    IF s = <<>> THEN <<x>>
    ELSE IF StrCmp(x, Head(s)) = "Less" THEN <<x>> \o s
    ELSE <<Head(s)>> \o InsertStr(Tail(s), x)

\* the listed names left in the order list() returned them
SortStrSkipped(s) == s

\* names.sort(): a stable sort of strings
RECURSIVE SortStr(_)
SortStr(s) ==
    IF s = <<>> THEN <<>>
    ELSE InsertStr(SortStr(SubSeq(s, 1, Len(s) - 1)), s[Len(s)])

\* names.binary_search_by(|name| name.as_str().cmp(&cid)) over [lo, hi):
\* TRUE when it returns Ok
RECURSIVE BinarySearch(_, _, _, _)
BinarySearch(v, cid, lo, hi) ==
    IF lo >= hi THEN FALSE
    ELSE LET mid == lo + ((hi - lo) \div 2)
             c == StrCmp(v[mid + 1], cid)
         IN IF c = "Equal" THEN TRUE
            ELSE IF c = "Less" THEN BinarySearch(v, cid, mid + 1, hi)
            ELSE BinarySearch(v, cid, lo, mid)

\* a krate that is pushed whatever the remote holds
NeedsMirrorAlways(v, k) == TRUE

\* the test of mirror.rs:56-59: the binary search is_err()
NeedsMirror(v, k) == ~BinarySearch(v, CloudId(k), 0, Len(v))

\* the loop of mirror.rs:54-62
RECURSIVE ComputeToMirror(_, _)
ComputeToMirror(v, ks) ==
    IF ks = <<>> THEN <<>>
    ELSE (IF NeedsMirror(v, Head(ks)) THEN <<Head(ks)>> ELSE <<>>)
         \o ComputeToMirror(v, Tail(ks))

\* The comparison to_mirror.sort() makes.  Vec::sort asks for T: Ord; Krate's
\* Ord is derived (name, version, source) while its PartialOrd is written by
\* hand (source only).  Which of the two a sort calls is the library's
\* choice, and with the two disagreeing the result is unspecified: both are
\* outcomes of a build.
KrateLess(impl, a, b) ==
    IF impl = "cmp" THEN KrateCmp(a, b) = "Less" ELSE KratePartialCmp(a, b) = "Less"

RECURSIVE InsertKrate(_, _, _)
InsertKrate(impl, s, x) ==
    IF s = <<>> THEN <<x>>
    ELSE IF KrateLess(impl, x, Head(s)) THEN <<x>> \o s
    ELSE <<Head(s)>> \o InsertKrate(impl, Tail(s), x)

\* to_mirror.sort(): a stable sort (the sorted front is bound once, as a
\* value, before the last element is inserted into it)
RECURSIVE SortKrates(_, _)
SortKrates(impl, s) ==
    IF s = <<>> THEN <<>>
    ELSE CHOOSE r \in {InsertKrate(impl, front, s[Len(s)]) :
                          front \in {SortKrates(impl, SubSeq(s, 1, Len(s) - 1))}} : TRUE

\* a dedup that drops both elements of an equal pair
RECURSIVE DedupDroppingPairs(_)
DedupDroppingPairs(s) ==
    IF Len(s) <= 1 THEN s
    ELSE IF KrateEq(s[1], s[2]) THEN DedupDroppingPairs(SubSeq(s, 3, Len(s)))
    ELSE <<s[1]>> \o DedupDroppingPairs(Tail(s))

\* to_mirror.dedup(): of each run of consecutive equal elements keep the first
RECURSIVE Dedup(_)
Dedup(s) ==
    IF Len(s) <= 1 THEN s
    ELSE IF KrateEq(s[1], s[2]) THEN Dedup(<<s[1]>> \o SubSeq(s, 3, Len(s)))
    ELSE <<s[1]>> \o Dedup(Tail(s))

-----------------------------------------------------------------------------
(* locked_crates *)

MirrorSources == {SrcX, SrcG}
MirrorKrates ==
    {Krate(n, v, s) : n \in {NameA, NameB}, v \in {Ver1, Ver2}, s \in MirrorSources}

\* keys a backend may hold: the pool's CloudIds and one key of another crate
OtherKey == <<122>>
KeyPool == {CloudId(Krate(NameA, Ver1, s)) : s \in MirrorSources} \cup {OtherKey}

SeqsUpTo(S, n) == UNION {[1..m -> S] : m \in 0..n}

\* the tasks of the transfer phase, one per element of to_mirror
Tasks == DOMAIN fetchRes

InitMirror ==
    /\ krates \in SeqsUpTo(MirrorKrates, MaxKrates)
    /\ store \in {S \in SUBSET KeyPool : Cardinality(S) <= MaxStore}
    /\ sortImpl \in {"lt", "cmp"}
    /\ pc = "ListRemote"
    /\ listed = [res |-> None, keys |-> <<>>]
    /\ names = <<>>
    /\ to_mirror = <<>>
    /\ fetchRes = <<>>
    /\ uploadRes = <<>>
    /\ result = None
    /\ rerun = FALSE
    /\ prev = NoPrev

\* mirror.rs:49-51: list()? and names.sort()
ListRemote ==
    /\ pc = "ListRemote"
    /\ \/ \E l \in Enumerations(store) :
             /\ listed' = [res |-> "Ok", keys |-> l]
             /\ names' = SortStr(l)
             /\ pc' = "ComputeDiff"
             /\ UNCHANGED result
       \/ /\ listed' = [res |-> "Err", keys |-> <<>>]
          /\ result' = "Err"
          /\ pc' = "Done"
          /\ UNCHANGED names
    /\ UNCHANGED <<rerun, prev, krates, store, sortImpl, to_mirror, fetchRes, uploadRes>>

\* mirror.rs:53-62
ComputeDiff ==
    /\ pc = "ComputeDiff"
    /\ to_mirror' = ComputeToMirror(names, krates)
    /\ pc' = "Dedup"
    /\ UNCHANGED <<rerun, prev, krates, store, sortImpl, listed, names, fetchRes, uploadRes, result>>

\* mirror.rs:64-73: sort, dedup, and the early return on an empty list
DedupStep ==
    /\ pc = "Dedup"
    /\ \E sorted \in {SortKrates(sortImpl, to_mirror)} :
       \E d \in {Dedup(sorted)} :
          /\ to_mirror' = d
          /\ fetchRes' = [i \in DOMAIN d |-> None]
          /\ uploadRes' = [i \in DOMAIN d |-> None]
          /\ IF d = <<>>
             THEN pc' = "Done" /\ result' = "Ok"
             ELSE pc' = "ParallelTransfer" /\ UNCHANGED result
    /\ UNCHANGED <<rerun, prev, krates, store, sortImpl, listed, names>>

\* a task that fetches again after a failed fetch
CanFetchRetrying(i) == fetchRes[i] \in {None, "Err"}

\* mirror.rs:77-79: the closure runs once per element, and fetches first
CanFetch(i) == fetchRes[i] = None

\* mirror.rs:79-85: the upload is in the Ok arm of the fetch, once
CanUpload(i) == fetchRes[i] = "Ok" /\ uploadRes[i] = None

\* mirror.rs:79: one task's fetch::from_crates_io
Fetch(i) ==
    /\ pc = "ParallelTransfer"
    /\ CanFetch(i)
    /\ \E r \in {"Ok", "Err"} : fetchRes' = [fetchRes EXCEPT ![i] = r]
    /\ UNCHANGED <<rerun, prev, krates, store, sortImpl, pc, listed, names, to_mirror, uploadRes, result>>

\* mirror.rs:81-85: the same task's ctx.backend.upload, on a fetched buffer
Upload(i) ==
    /\ pc = "ParallelTransfer"
    /\ CanUpload(i)
    /\ \/ /\ uploadRes' = [uploadRes EXCEPT ![i] = "Ok"]
          /\ store' = store \cup {CloudId(to_mirror[i])}
       \/ /\ uploadRes' = [uploadRes EXCEPT ![i] = "Err"]
          /\ UNCHANGED store
    /\ UNCHANGED <<rerun, prev, krates, sortImpl, pc, listed, names, to_mirror, fetchRes, result>>

\* a join that waits for an upload from every task
TaskFinishedUploaded(i) == uploadRes[i] # None

\* a task has run its closure to the end
TaskFinished(i) ==
    \/ fetchRes[i] = "Err"
    \/ fetchRes[i] = "Ok" /\ uploadRes[i] # None

\* for_each returning as soon as one task has failed
TransferAborted ==
    \/ \A i \in Tasks : TaskFinished(i)
    \/ \E i \in Tasks : fetchRes[i] = "Err" \/ uploadRes[i] = "Err"

\* par_iter().for_each(..) returns when every task has finished
TransferComplete == \A i \in Tasks : TaskFinished(i)

\* a return that reports the failure of a task
JoinResultPropagating ==
    IF \E i \in Tasks : fetchRes[i] = "Err" \/ uploadRes[i] = "Err" THEN "Err" ELSE "Ok"

\* mirror.rs:88: Ok(()) whatever the tasks logged
JoinResult == "Ok"

\* mirror.rs:86-88
Join ==
    /\ pc = "ParallelTransfer"
    /\ TransferComplete
    /\ pc' = "Done"
    /\ result' = JoinResult
    /\ UNCHANGED <<rerun, prev, krates, store, sortImpl, listed, names, to_mirror, fetchRes, uploadRes>>

IdleOrd ==
    /\ ka = None
    /\ kb = None
    /\ eqRes = None
    /\ cmpRes = None
    /\ pcmpRes = None
    /\ cidRes = <<>>

NextMirror ==
    \/ ListRemote /\ UNCHANGED <<ordVars, indexVars, lockVars>>
    \/ ComputeDiff /\ UNCHANGED <<ordVars, indexVars, lockVars>>
    \/ DedupStep /\ UNCHANGED <<ordVars, indexVars, lockVars>>
    \/ \E i \in Tasks : Fetch(i) /\ UNCHANGED <<ordVars, indexVars, lockVars>>
    \/ \E i \in Tasks : Upload(i) /\ UNCHANGED <<ordVars, indexVars, lockVars>>
    \/ Join /\ UNCHANGED <<ordVars, indexVars, lockVars>>

InitMirrorOnly == InitMirror /\ IdleOrd /\ IdleIndex /\ IdleLock

SpecMirror == InitMirrorOnly /\ [][NextMirror]_vars

\* the calling thread keeps running, and rayon's workers run every task
\* they were handed
SpecMirrorFair == SpecMirror /\ WF_vars(NextMirror)

\* mirror.rs:45: the caller invokes locked_crates once more with the same
\* ctx.krates, against the backend as the first invocation left it
Rerun ==
    /\ pc = "Done"
    /\ ~rerun
    /\ rerun' = TRUE
    /\ prev' = [to_mirror |-> to_mirror, fetchRes |-> fetchRes,
                uploadRes |-> uploadRes, result |-> result]
    /\ pc' = "ListRemote"
    /\ listed' = [res |-> None, keys |-> <<>>]
    /\ names' = <<>>
    /\ to_mirror' = <<>>
    /\ fetchRes' = <<>>
    /\ uploadRes' = <<>>
    /\ result' = None
    /\ UNCHANGED <<krates, store, sortImpl>>

NextRerun ==
    \/ NextMirror
    \/ Rerun /\ UNCHANGED <<ordVars, indexVars, lockVars>>

\* the two-invocation runs start from the shorter dependency lists
MaxRerunKrates == MaxKrates - 1

InitRerunOnly ==
    /\ InitMirror /\ Len(krates) <= MaxRerunKrates
    /\ IdleOrd /\ IdleIndex /\ IdleLock

SpecRerun == InitRerunOnly /\ [][NextRerun]_vars

-----------------------------------------------------------------------------
(* read_lock_file *)

Some(v) == [some |-> TRUE, v |-> v]
Absent == [some |-> FALSE, v |-> <<>>]

\* "registry+https://github.com/rust-lang/crates.io-index"
RegistryLocator ==
    <<114, 101, 103, 105, 115, 116, 114, 121, 43, 104, 116, 116, 112, 115,
     58, 47, 47, 103, 105, 116, 104, 117, 98, 46, 99, 111, 109, 47, 114,
     117, 115, 116, 45, 108, 97, 110, 103, 47, 99, 114, 97, 116, 101, 115,
     46, 105, 111, 45, 105, 110, 100, 101, 120>>

\* the first index of byte c in s, 0 when there is none
RECURSIVE IndexFrom(_, _, _)
IndexFrom(s, c, i) ==
    IF i > Len(s) THEN 0
    ELSE IF s[i] = c THEN i
    ELSE IndexFrom(s, c, i + 1)

IndexOf(s, c) == IndexFrom(s, c, 1)

\* the pieces of s between occurrences of the byte c
RECURSIVE Split(_, _)
Split(s, c) ==
    LET i == IndexOf(s, c)
    IN IF i = 0 THEN <<s>>
       ELSE <<SubSeq(s, 1, i - 1)>> \o Split(SubSeq(s, i + 1, Len(s)), c)

\* Url::parse(source): a text with no scheme is an error; otherwise the text
\* before '?' and '#', the query between them and the fragment after '#'
ParseUrl(text) ==
    IF IndexOf(text, 58) = 0
    THEN [res |-> "Err", base |-> <<>>, query |-> Absent, fragment |-> Absent]
    ELSE LET h == IndexOf(text, 35)
             front == IF h = 0 THEN text ELSE SubSeq(text, 1, h - 1)
             q == IndexOf(front, 63)
         IN [res |-> "Ok",
             base |-> IF q = 0 THEN front ELSE SubSeq(front, 1, q - 1),
             query |-> IF q = 0 THEN Absent
                       ELSE Some(SubSeq(front, q + 1, Len(front))),
             fragment |-> IF h = 0 THEN Absent
                          ELSE Some(SubSeq(text, h + 1, Len(text)))]

\* one "key=value" piece of a query as a pair
QueryPair(piece) ==
    LET e == IndexOf(piece, 61)
    IN IF e = 0 THEN <<piece, <<>>>>
       ELSE <<SubSeq(piece, 1, e - 1), SubSeq(piece, e + 1, Len(piece))>>

\* url.query_pairs()
QueryPairs(url) ==
    IF ~url.query.some \/ url.query.v = <<>> THEN <<>>
    ELSE LET pieces == Split(url.query.v, 38)
         IN [i \in DOMAIN pieces |-> QueryPair(pieces[i])]

\* .find(|(k, _)| k == "rev"): the value of the first pair whose key is rev
RECURSIVE FindRev(_)
FindRev(pairs) ==
    IF pairs = <<>> THEN Absent
    ELSE IF Head(pairs)[1] = <<114, 101, 118>> THEN Some(Head(pairs)[2])
    ELSE FindRev(Tail(pairs))

\* s without the suffix suf, when it ends with it
StripSuffix(s, suf) ==
    IF Len(s) >= Len(suf) /\ SubSeq(s, Len(s) - Len(suf) + 1, Len(s)) = suf
    THEN SubSeq(s, 1, Len(s) - Len(suf))
    ELSE s

ToLower(c) == IF c >= 65 /\ c <= 90 THEN c + 32 ELSE c

\* the position of "://" in s, 0 when there is none
RECURSIVE AuthorityAt(_, _)
AuthorityAt(s, i) ==
    IF i + 2 > Len(s) THEN 0
    ELSE IF SubSeq(s, i, i + 2) = <<58, 47, 47>> THEN i
    ELSE AuthorityAt(s, i + 1)

\* util::Canonicalized::try_from(url) and its ident(): the URL without query
\* and fragment, its host in lower case, a trailing slash and a ".git"
\* suffix stripped; a URL with no host is refused.  The ident is derived from
\* the normalized host and path.
Canonicalize(url) ==
    LET a == AuthorityAt(url.base, 1)
    IN IF a = 0 THEN [res |-> "Err", url |-> <<>>, ident |-> <<>>]
       ELSE LET rest == SubSeq(url.base, a + 3, Len(url.base))
                slash == IndexOf(rest, 47)
                hostEnd == IF slash = 0 THEN Len(rest) ELSE slash - 1
                lowered == [i \in DOMAIN rest |->
                              IF i <= hostEnd THEN ToLower(rest[i]) ELSE rest[i]]
                norm == StripSuffix(StripSuffix(lowered, <<47>>), <<46, 103, 105, 116>>)
            IN [res |-> "Ok",
                url |-> SubSeq(url.base, 1, a + 2) \o norm,
                ident |-> [i \in DOMAIN norm |->
                             IF norm[i] = 47 THEN 95 ELSE norm[i]]]

\* whether byte offset n of s falls between two characters of UTF-8 text
IsCharBoundary(s, n) ==
    \/ n = 0
    \/ n = Len(s)
    \/ n < Len(s) /\ ~(s[n + 1] >= 128 /\ s[n + 1] <= 191)

\* Source::from_git_url: "Ok" with the source, "Err", or "Panic" when
\* &rev[..7] cuts a character in two
FromGitUrl(url) ==
    LET found == FindRev(QueryPairs(url))
    IN IF ~found.some THEN [res |-> "Err", src |-> CratesIo(<<>>)]
       ELSE IF Len(found.v) < RevLen THEN [res |-> "Err", src |-> CratesIo(<<>>)]
       ELSE IF ~IsCharBoundary(found.v, RevLen)
       THEN [res |-> "Panic", src |-> CratesIo(<<>>)]
       ELSE LET c == Canonicalize(url)
            IN IF c.res = "Err" THEN [res |-> "Err", src |-> CratesIo(<<>>)]
               ELSE [res |-> "Ok",
                     src |-> Git(c.url, SubSeq(found.v, 1, RevLen), c.ident)]

\* the write! of lib.rs:242-247
LookupKey(name, version) ==
    <<99, 104, 101, 99, 107, 115, 117, 109, 32>> \o name \o <<32>> \o version
    \o <<32, 40>> \o RegistryLocator \o <<41>>

\* a lookup that leaves the entry in the map
MetaGet(meta, key) ==
    IF key \in DOMAIN meta
    THEN [val |-> Some(meta[key]), meta |-> meta]
    ELSE [val |-> Absent, meta |-> meta]

\* locks.metadata.remove(&lookup)
MetaRemove(meta, key) ==
    IF key \in DOMAIN meta
    THEN [val |-> Some(meta[key]),
          meta |-> [k \in DOMAIN meta \ {key} |-> meta[k]]]
    ELSE [val |-> Absent, meta |-> meta]

\* a registry record that asks the metadata first and falls back to its own
\* checksum
RegistryRecordMetaFirst(p, meta, buf) ==
    LET r == MetaRemove(meta, buf \o LookupKey(p.name, p.version))
    IN IF r.val.some
       THEN [push |-> <<Krate(p.name, p.version, CratesIo(r.val.v))>>,
             meta |-> r.meta, lookup |-> <<>>, res |-> "Ok"]
       ELSE [push |-> IF p.checksum.some
                      THEN <<Krate(p.name, p.version, CratesIo(p.checksum.v))>>
                      ELSE <<>>,
             meta |-> r.meta, lookup |-> <<>>, res |-> "Ok"]

\* lib.rs:235-259: a record of the public registry
RegistryRecord(p, meta, buf) ==
    IF p.checksum.some
    THEN [push |-> <<Krate(p.name, p.version, CratesIo(p.checksum.v))>>,
          meta |-> meta, lookup |-> buf, res |-> "Ok"]
    ELSE LET r == MetaRemove(meta, buf \o LookupKey(p.name, p.version))
         IN [push |-> IF r.val.some
                      THEN <<Krate(p.name, p.version, CratesIo(r.val.v))>>
                      ELSE <<>>,
             meta |-> r.meta, lookup |-> <<>>, res |-> "Ok"]

\* lib.rs:261-286: a record of any other source
GitRecord(p, meta, buf) ==
    LET url == ParseUrl(p.source.v)
    IN IF url.res = "Err"
       THEN [push |-> <<>>, meta |-> meta, lookup |-> buf, res |-> "Ok"]
       ELSE LET g == FromGitUrl(url)
            IN [push |-> IF g.res = "Ok"
                         THEN <<Krate(p.name, p.version, g.src)>> ELSE <<>>,
                meta |-> meta, lookup |-> buf,
                res |-> IF g.res = "Panic" THEN "Panic" ELSE "Ok"]

\* lib.rs:225-287: one turn of the loop over locks.package
ProcessRecord(p, meta, buf) ==
    IF ~p.source.some
    THEN [push |-> <<>>, meta |-> meta, lookup |-> buf, res |-> "Ok"]
    ELSE IF p.source.v = RegistryLocator
    THEN RegistryRecord(p, meta, buf)
    ELSE GitRecord(p, meta, buf)

Package(name, version, source, checksum) ==
    [name |-> name, version |-> version, source |-> source, checksum |-> checksum]

\* "git+https://h/r.git?rev=9135717#9135717aa"
UrlShortIdFragment ==
    <<103, 105, 116, 43, 104, 116, 116, 112, 115, 58, 47, 47, 104, 47,
     114, 46, 103, 105, 116, 63, 114, 101, 118, 61, 57, 49, 51, 53, 55, 49,
     55, 35, 57, 49, 51, 53, 55, 49, 55, 97, 97>>
\* "git+https://H/r/?rev=9135717aa"
UrlLongRev ==
    <<103, 105, 116, 43, 104, 116, 116, 112, 115, 58, 47, 47, 72, 47, 114,
     47, 63, 114, 101, 118, 61, 57, 49, 51, 53, 55, 49, 55, 97, 97>>
\* "git+https://h/r?rev=913571"
UrlShortRev ==
    <<103, 105, 116, 43, 104, 116, 116, 112, 115, 58, 47, 47, 104, 47,
     114, 63, 114, 101, 118, 61, 57, 49, 51, 53, 55, 49>>
\* "git+https://h/r?branch=m"
UrlNoRev ==
    <<103, 105, 116, 43, 104, 116, 116, 112, 115, 58, 47, 47, 104, 47,
     114, 63, 98, 114, 97, 110, 99, 104, 61, 109>>
\* "nourl"
UrlUnparseable == <<110, 111, 117, 114, 108>>
\* "git+https://h/r?rev=" and five two-byte characters
UrlWideRev ==
    <<103, 105, 116, 43, 104, 116, 116, 112, 115, 58, 47, 47, 104, 47,
     114, 63, 114, 101, 118, 61, 195, 169, 195, 169, 195, 169, 195, 169,
     195, 169>>
\* "git:r?rev=9135717"
UrlNoHost == <<103, 105, 116, 58, 114, 63, 114, 101, 118, 61, 57, 49, 51, 53, 55, 49, 55>>

ChkX == <<120>>
ChkY == <<121>>

LockPackages ==
    {Package(NameA, Ver1, Some(RegistryLocator), Absent),
     Package(NameB, Ver1, Some(RegistryLocator), Absent),
     Package(NameA, Ver1, Some(RegistryLocator), Some(ChkX)),
     Package(NameA, Ver1, Absent, Absent),
     Package(NameB, Ver1, Some(UrlShortIdFragment), Absent),
     Package(NameA, Ver1, Some(UrlLongRev), Absent),
     Package(NameA, Ver1, Some(UrlShortRev), Absent),
     Package(NameB, Ver1, Some(UrlNoRev), Absent),
     Package(NameA, Ver1, Some(UrlUnparseable), Absent),
     Package(NameB, Ver1, Some(UrlWideRev), Absent),
     Package(NameA, Ver1, Some(UrlNoHost), Absent)}

MetaKeys == {LookupKey(NameA, Ver1), LookupKey(NameB, Ver1)}
MetaMaps == UNION {[K -> {ChkY}] : K \in SUBSET MetaKeys}

InitLock ==
    /\ lpc = "Read"
    /\ pkgs \in SeqsUpTo(LockPackages, MaxPkgs)
    /\ metadata \in MetaMaps
    /\ meta0 = metadata
    /\ idx = 0
    /\ lookup = <<>>
    /\ lkrates = <<>>
    /\ lresult = None
    /\ fates = <<>>

\* a push that puts the new dependency in front
PushKratesFront(ks, push) == push \o ks

\* krates.push(..) of lib.rs:235, 250 and 274
PushKrates(ks, push) == ks \o push

\* lib.rs:217-223: the file is read and parsed, or the error is returned
ReadLock ==
    /\ lpc = "Read"
    /\ \/ lpc' = "Loop" /\ UNCHANGED lresult
       \/ lpc' = "Done" /\ lresult' = "Err"
    /\ UNCHANGED <<pkgs, metadata, idx, lookup, lkrates, meta0, fates>>

\* lib.rs:225-287: the next record
LockStep ==
    /\ lpc = "Loop"
    /\ idx < Len(pkgs)
    /\ LET r == ProcessRecord(pkgs[idx + 1], metadata, lookup)
       IN /\ idx' = idx + 1
          /\ metadata' = r.meta
          /\ lookup' = r.lookup
          /\ lkrates' = PushKrates(lkrates, r.push)
          /\ fates' = Append(fates, [pushed |-> r.push, before |-> metadata,
                                     after |-> r.meta, res |-> r.res])
          /\ IF r.res = "Panic"
             THEN lpc' = "Done" /\ lresult' = "Panic"
             ELSE UNCHANGED <<lpc, lresult>>
    /\ UNCHANGED <<pkgs, meta0>>

\* lib.rs:289
LockReturn ==
    /\ lpc = "Loop"
    /\ idx = Len(pkgs)
    /\ lpc' = "Done"
    /\ lresult' = "Ok"
    /\ UNCHANGED <<pkgs, metadata, idx, lookup, lkrates, meta0, fates>>

NextLock ==
    \/ ReadLock /\ UNCHANGED <<mirrorVars, ordVars, indexVars>>
    \/ LockStep /\ UNCHANGED <<mirrorVars, ordVars, indexVars>>
    \/ LockReturn /\ UNCHANGED <<mirrorVars, ordVars, indexVars>>

InitLockOnly == InitLock /\ IdleMirror /\ IdleOrd /\ IdleIndex

SpecLock == InitLockOnly /\ [][NextLock]_vars

-----------------------------------------------------------------------------
(* registry_index *)

\* Instants and durations are counted in one unit.  chrono::Duration holds
\* less than std::time::Duration: ChronoMax is the longest std Duration that
\* chrono::Duration::from_std converts, and it exceeds every difference of
\* two instants.
ChronoMax == MaxTime + 1

\* chrono::Duration::from_std(max_stale)
FromStd(d) == IF d > ChronoMax THEN [res |-> "Err", d |-> 0] ELSE [res |-> "Ok", d |-> d]

\* a comparison that takes an index exactly max_stale old for fresh
IsFreshOrEqual(n, last, max_dur) == n - last <= max_dur

\* a comparison that skips the stale index instead of the fresh one
IsFreshInverted(n, last, max_dur) == n - last > max_dur

\* mirror.rs:30
IsFresh(n, last, max_dur) == n - last < max_dur

\* a backend error that is propagated, as `?` would
AfterUpdatedPropagating(r, n, max) ==
    IF r.res = "Err" THEN "Fail"
    ELSE IF r.res = "Some"
    THEN (IF FromStd(max).res = "Err" THEN "Fail"
          ELSE IF IsFresh(n, r.t, FromStd(max).d) THEN "Skip"
          ELSE "Refresh")
    ELSE "Refresh"

\* mirror.rs:25-38: what follows the answer r of updated(): "Skip" is the
\* return Ok(()) of line 35, "Fail" the `?` of line 28, "Refresh" falling
\* through to line 40
AfterUpdated(r, n, max) ==
    IF r.res = "Some"
    THEN (IF FromStd(max).res = "Err" THEN "Fail"
          ELSE IF IsFresh(n, r.t, FromStd(max).d) THEN "Skip"
          ELSE "Refresh")
    ELSE "Refresh"

\* an upload whose failure is only logged
UploadReturnSwallowed(r) == "Ok"

\* mirror.rs:42: the upload's result is the function's result
UploadReturn(r) == r

\* "git+https://github.com/rust-lang/crates.io-index.git"
IndexUrl ==
    <<103, 105, 116, 43, 104, 116, 116, 112, 115, 58, 47, 47, 103, 105, 116,
      104, 117, 98, 46, 99, 111, 109, 47, 114, 117, 115, 116, 45, 108, 97, 110,
      103, 47, 99, 114, 97, 116, 101, 115, 46, 105, 111, 45, 105, 110, 100,
      101, 120, 46, 103, 105, 116>>

\* mirror.rs:13-21: the fake krate of the index, a git Source with an empty
\* rev; its name is "crates.io-index" and its version "1.0.0"
IndexKrate ==
    LET c == Canonicalize(ParseUrl(IndexUrl))
    IN Krate(<<99, 114, 97, 116, 101, 115, 46, 105, 111, 45, 105, 110, 100, 101, 120>>,
             <<49, 46, 48, 46, 48>>,
             Git(c.url, <<>>, c.ident))

UpdatedResults ==
    {[res |-> "Err", t |-> 0], [res |-> "None", t |-> 0]}
    \cup {[res |-> "Some", t |-> t] : t \in 0..MaxTime}

InitIndex ==
    /\ ipc = "Updated"
    /\ now \in 0..MaxTime
    /\ max_stale \in 0..(ChronoMax + 1)
    /\ snapshot \in {"absent", "previous"}
    /\ updatedRes = [res |-> None, t |-> 0]
    /\ indexFetch = None
    /\ indexUpload = None
    /\ iresult = None
    /\ indexKey = <<>>

\* mirror.rs:25-38
CheckUpdated ==
    /\ ipc = "Updated"
    /\ \E r \in UpdatedResults :
          /\ updatedRes' = r
          /\ LET a == AfterUpdated(r, now, max_stale)
             IN /\ ipc' = (IF a = "Refresh" THEN "Fetch" ELSE "Done")
                /\ iresult' = (IF a = "Skip" THEN "Ok"
                               ELSE IF a = "Fail" THEN "Err" ELSE iresult)
    /\ UNCHANGED <<now, max_stale, snapshot, indexFetch, indexUpload, indexKey>>

\* mirror.rs:40: fetch::registry(..)?
FetchIndex ==
    /\ ipc = "Fetch"
    /\ \E r \in {"Ok", "Err"} :
          /\ indexFetch' = r
          /\ ipc' = (IF r = "Ok" THEN "Upload" ELSE "Done")
          /\ iresult' = (IF r = "Ok" THEN iresult ELSE "Err")
    /\ UNCHANGED <<now, max_stale, snapshot, updatedRes, indexUpload, indexKey>>

\* mirror.rs:42: ctx.backend.upload(index, &krate)
UploadIndex ==
    /\ ipc = "Upload"
    /\ \E r \in {"Ok", "Err"} :
          /\ indexUpload' = r
          /\ snapshot' = (IF r = "Ok" THEN "fresh" ELSE snapshot)
          /\ indexKey' = (IF r = "Ok" THEN CloudId(IndexKrate) ELSE indexKey)
          /\ iresult' = UploadReturn(r)
    /\ ipc' = "Done"
    /\ UNCHANGED <<now, max_stale, updatedRes, indexFetch>>

NextIndex ==
    \/ CheckUpdated /\ UNCHANGED <<mirrorVars, ordVars, lockVars>>
    \/ FetchIndex /\ UNCHANGED <<mirrorVars, ordVars, lockVars>>
    \/ UploadIndex /\ UNCHANGED <<mirrorVars, ordVars, lockVars>>

InitIndexOnly == InitIndex /\ IdleMirror /\ IdleOrd /\ IdleLock

SpecIndex == InitIndexOnly /\ [][NextIndex]_vars

-----------------------------------------------------------------------------
(* Properties of locked_crates *)

ListedKeys == Range(listed.keys)

\* the tasks whose fetch was invoked, and those whose upload was invoked
FetchedTasks == {i \in Tasks : fetchRes[i] # None}
UploadedTasks == {i \in Tasks : uploadRes[i] # None}

\* C1: no fetch and no upload is invoked for a dependency whose CloudId is in
\* the key list list() returned; and when every dependency's CloudId is in
\* that list, the transfer phase is never entered and the call returns Ok
\* with no fetch and no upload.
C1_NoTransferOfListedKeys ==
    /\ \A i \in FetchedTasks \cup UploadedTasks :
          CloudId(to_mirror[i]) \notin ListedKeys
    /\ (/\ listed.res = "Ok"
        /\ \A j \in DOMAIN krates : CloudId(krates[j]) \in ListedKeys)
       => /\ pc # "ParallelTransfer"
          /\ FetchedTasks = {} /\ UploadedTasks = {}
          /\ pc = "Done" => result = "Ok"

\* a call that returned after fetching one dependency while another was in
\* the listed keys
C1_Witness ==
    /\ pc = "Done"
    /\ result = "Ok"
    /\ \E j \in DOMAIN krates : CloudId(krates[j]) \in ListedKeys
    /\ FetchedTasks # {}

C3_FailureIsolated ==
    (pc = "Done" /\ Tasks # {})
    => /\ result = "Ok"
       /\ \A i \in Tasks :
             /\ fetchRes[i] # None
             /\ fetchRes[i] = "Ok" => uploadRes[i] # None
             /\ uploadRes[i] = "Ok" => CloudId(to_mirror[i]) \in store

\* a batch of two Sources in which one fetch failed and the other dependency
\* was uploaded
C3_Witness ==
    /\ pc = "Done"
    /\ sortImpl = "lt"
    /\ \E i, k \in Tasks :
          /\ fetchRes[i] = "Err"
          /\ uploadRes[k] = "Ok"
          /\ CloudId(to_mirror[k]) \in store

\* C15: within one locked_crates, a task whose fetch has been invoked keeps
\* that fetch's outcome and a task whose upload has been invoked keeps that
\* upload's outcome (neither is invoked a second time); an upload is invoked
\* only for a task whose fetch has returned Ok; and a task whose fetch
\* failed gets no upload and no further fetch.
C15_NoRetryUploadAfterFetch ==
    [][\A i \in Tasks :
          /\ fetchRes[i] # None => fetchRes'[i] = fetchRes[i]
          /\ uploadRes[i] # None => uploadRes'[i] = uploadRes[i]
          /\ (uploadRes[i] = None /\ uploadRes'[i] # None) => fetchRes[i] = "Ok"
          /\ fetchRes[i] = "Err" => uploadRes'[i] = None]_vars

\* a call that returned with one task's fetch failed and never uploaded, and
\* another task's upload failed after its fetch succeeded
C15_Witness ==
    /\ pc = "Done"
    /\ result = "Ok"
    /\ \E i, j \in Tasks :
          /\ fetchRes[i] = "Err" /\ uploadRes[i] = None
          /\ fetchRes[j] = "Ok" /\ uploadRes[j] = "Err"

\* the closure of a task has reached one of its ends: a failed fetch, or an
\* upload that returned
TaskTerminal(i) == fetchRes[i] = "Err" \/ uploadRes[i] \in {"Ok", "Err"}

\* the order of the phases of a locked_crates whose list() succeeded
PhaseEdges ==
    {<<"ListRemote", "ComputeDiff">>, <<"ComputeDiff", "Dedup">>,
     <<"Dedup", "Done">>, <<"Dedup", "ParallelTransfer">>,
     <<"ParallelTransfer", "Done">>}

\* C16: under fair scheduling locked_crates eventually returns; whenever it
\* has returned, every task of the transfer phase has reached a terminal
\* outcome (none is pending or running); and its phases follow
\* ListRemote -> ComputeDiff -> Dedup -> (Done | ParallelTransfer) -> Done,
\* the only other step being the return from ListRemote when list() fails.
C16_TerminatesAfterAllTasks ==
    /\ <>(pc = "Done")
    /\ [](pc = "Done" => \A i \in Tasks : TaskTerminal(i))
    /\ [][pc' # pc
          => \/ <<pc, pc'>> \in PhaseEdges
             \/ pc = "ListRemote" /\ pc' = "Done" /\ listed'.res = "Err"]_vars

\* a call that returned from the transfer phase after both of its tasks had
\* uploaded
C16_Witness ==
    /\ pc = "Done"
    /\ Cardinality(Tasks) >= 2
    /\ \A i \in Tasks : uploadRes[i] = "Ok"

\* the tasks whose dependency has the Source of krates[j]
TasksFor(j) == {i \in Tasks : SourceEq(to_mirror[i].source, krates[j].source)}

\* C19: after a successful list(), every dependency of ctx.krates whose
\* CloudId is absent from the listed keys has, once to_mirror is sorted and
\* deduplicated, a task for a dependency of the same Source; when
\* locked_crates has returned, the fetch of such a task was invoked, and if
\* a task of that Source fetched and uploaded successfully the backend holds
\* the dependency's CloudId.
C19_MissingKeysAttempted ==
    (listed.res = "Ok" /\ pc \in {"ParallelTransfer", "Done"})
    => \A j \in DOMAIN krates :
          CloudId(krates[j]) \notin ListedKeys
          => /\ TasksFor(j) # {}
             /\ pc = "Done" => \A i \in TasksFor(j) : fetchRes[i] # None
             /\ (pc = "Done" /\ \E i \in TasksFor(j) :
                                   fetchRes[i] = "Ok" /\ uploadRes[i] = "Ok")
                => CloudId(krates[j]) \in store

\* a call that returned after one task fetched and uploaded the Source that
\* two missing dependencies of different names share
C19_Witness ==
    /\ pc = "Done"
    /\ listed.res = "Ok"
    /\ \E j, k \in DOMAIN krates :
          /\ krates[j].name # krates[k].name
          /\ krates[j].source = krates[k].source
          /\ CloudId(krates[j]) \notin ListedKeys
          /\ Cardinality(TasksFor(j)) = 1
          /\ \A i \in TasksFor(j) : uploadRes[i] = "Ok"
          /\ CloudId(krates[j]) \in store

\* C20: locked_crates returns Err only when list() failed, and then it has
\* returned with no task, no fetch and no upload; and whenever list()
\* succeeded it returns Ok, whatever the fetches and uploads returned.
C20_FailsOnlyOnList ==
    /\ result = "Err" => listed.res = "Err"
    /\ listed.res = "Err"
       => /\ pc = "Done" /\ result = "Err"
          /\ to_mirror = <<>>
          /\ FetchedTasks = {} /\ UploadedTasks = {}
    /\ (pc = "Done" /\ listed.res = "Ok") => result = "Ok"

\* a call that returned Ok although the fetch of every one of its tasks
\* failed
C20_Witness ==
    /\ pc = "Done"
    /\ listed.res = "Ok"
    /\ result = "Ok"
    /\ Cardinality(Tasks) >= 2
    /\ \A i \in Tasks : fetchRes[i] = "Err"

-----------------------------------------------------------------------------
(* Properties of the Krate comparisons *)

\* C7: a == b exactly when the two Sources are the same, whatever the names
\* and versions.
C7_EqBySourceOnly ==
    eqRes # None => ((eqRes = "true") <=> (ka.source = kb.source))

\* two dependencies of different name and version that compare equal
C7_Witness ==
    /\ eqRes = "true"
    /\ ka.name # kb.name
    /\ ka.version # kb.version

\* C8: Ord::cmp(a, b) is the ordering of the two Sources, and is Equal
\* exactly when a == b.
C8_CmpBySourceOnly ==
    cmpRes # None
    => /\ cmpRes = SourceCmp(ka.source, kb.source)
       /\ (cmpRes = "Equal") <=> KrateEq(ka, kb)

\* the identity of a Source: the checksum of a registry Source, the
\* (ident, rev) pair of a git Source
SameIdentity(s, t) ==
    /\ s.tag = t.tag
    /\ IF s.tag = "CratesIo"
       THEN s.chksum = t.chksum
       ELSE s.ident = t.ident /\ s.rev = t.rev

\* C14: two dependencies whose Sources differ in identity (two registry
\* Sources of different checksums, two git Sources of different (ident, rev),
\* or a registry and a git Source) render to different CloudId strings.
C14_CloudIdUnique ==
    (cidRes # <<>> /\ ~SameIdentity(ka.source, kb.source))
    => cidRes[1] # cidRes[2]

-----------------------------------------------------------------------------
(* Properties of registry_index *)

\* C4 as stated: with a timestamp and now - last_updated < max_stale the
\* call invokes neither the fetch nor the upload and returns Ok; with no
\* timestamp it invokes the fetch, and the upload after a fetched snapshot.
C4_SkipFreshReturnsOk ==
    /\ (updatedRes.res = "Some" /\ now - updatedRes.t < max_stale)
       => /\ ipc = "Done"
          /\ indexFetch = None /\ indexUpload = None
          /\ iresult = "Ok"
    /\ (updatedRes.res = "None" /\ ipc = "Done")
       => /\ indexFetch # None
          /\ indexFetch = "Ok" => indexUpload # None

\* C4 amended: the same, with Ok returned when max_stale converts to a
\* chrono Duration and the conversion's error returned when it does not.
C4_SkipFresh ==
    /\ (updatedRes.res = "Some" /\ now - updatedRes.t < max_stale)
       => /\ ipc = "Done"
          /\ indexFetch = None /\ indexUpload = None
          /\ iresult = (IF max_stale <= ChronoMax THEN "Ok" ELSE "Err")
    /\ (updatedRes.res = "None" /\ ipc = "Done")
       => /\ indexFetch # None
          /\ indexFetch = "Ok" => indexUpload # None

\* a fresh timestamp met with a convertible max_stale: the refresh is skipped
C4_Witness ==
    /\ updatedRes.res = "Some"
    /\ now - updatedRes.t < max_stale
    /\ max_stale <= ChronoMax
    /\ ipc = "Done"
    /\ iresult = "Ok"

\* C5: after updated() failed the call does not return before the fetch, and
\* once it has returned the fetch was invoked and the result is Ok exactly
\* when the fetch and the upload both succeeded.
C5_UpdatedErrorIsStale ==
    updatedRes.res = "Err"
    => /\ ipc = "Done" => indexFetch # None
       /\ ipc = "Done" =>
             ((iresult = "Ok") <=> (indexFetch = "Ok" /\ indexUpload = "Ok"))
       /\ indexFetch = "Ok" /\ ipc = "Done" => indexUpload # None

\* updated() failed and the refresh went through
C5_Witness ==
    /\ updatedRes.res = "Err"
    /\ ipc = "Done"
    /\ indexFetch = "Ok"
    /\ indexUpload = "Ok"
    /\ iresult = "Ok"
    /\ snapshot = "fresh"

\* C6: a failed upload makes the call return Err; a failed fetch makes it
\* return Err with the upload never invoked and the stored snapshot as it
\* was.
C6_RefreshFailurePropagates ==
    /\ indexUpload = "Err" => (ipc = "Done" /\ iresult = "Err")
    /\ indexFetch = "Err"
       => /\ ipc = "Done" /\ iresult = "Err"
          /\ indexUpload = None
          /\ snapshot # "fresh"

\* a refresh whose upload failed, over a previous snapshot
C6_Witness ==
    /\ indexFetch = "Ok"
    /\ indexUpload = "Err"
    /\ iresult = "Err"
    /\ snapshot = "previous"

\* updated() returned a timestamp that is max_stale old or older
StaleTimestamp == updatedRes.res = "Some" /\ now - updatedRes.t >= max_stale

\* C17: when updated() returned a timestamp with now - last_updated >=
\* max_stale, equality included, registry_index does not return before it has
\* invoked the index fetch; the upload is invoked after a successful fetch
\* and only then; and a successful upload leaves the fresh snapshot, in the
\* place of whatever was stored, under the key of the synthetic index krate,
\* whose Source is a git Source with an empty rev.
C17_StaleIsRefreshed ==
    StaleTimestamp
    => /\ ipc = "Done" => indexFetch # None
       /\ (ipc = "Done" /\ indexFetch = "Ok") => indexUpload # None
       /\ indexUpload # None => indexFetch = "Ok"
       /\ indexUpload = "Ok"
          => /\ snapshot = "fresh"
             /\ indexKey = CloudId(IndexKrate)
             /\ IndexKrate.source.tag = "Git"
             /\ IndexKrate.source.rev = <<>>
             /\ indexKey = IndexKrate.source.ident \o <<Dash>>

\* a refresh that went through on a timestamp exactly max_stale old
C17_Witness ==
    /\ ipc = "Done"
    /\ updatedRes.res = "Some"
    /\ max_stale > 0
    /\ now - updatedRes.t = max_stale
    /\ indexFetch = "Ok"
    /\ indexUpload = "Ok"
    /\ snapshot = "fresh"
    /\ iresult = "Ok"

-----------------------------------------------------------------------------
(* Properties of read_lock_file *)

\* a record of the public registry with no checksum of its own
RegistryNoChecksum(p) ==
    p.source.some /\ p.source.v = RegistryLocator /\ ~p.checksum.some

\* a record of the public registry with an inline checksum
RegistryInline(p) ==
    p.source.some /\ p.source.v = RegistryLocator /\ p.checksum.some

KeyOf(p) == LookupKey(p.name, p.version)

\* an earlier record of the file has looked the same composite key up
ConsumedBefore(i) ==
    \E j \in 1..(i - 1) : RegistryNoChecksum(pkgs[j]) /\ KeyOf(pkgs[j]) = KeyOf(pkgs[i])

\* C9 as stated: every consumed registry record with no inline checksum
\* pushed a Registry dependency with the metadata's checksum exactly when its
\* composite key is in the file's metadata, and raised no error.
C9_RegistryIffKeyInFile ==
    \A i \in DOMAIN fates :
        RegistryNoChecksum(pkgs[i])
        => /\ fates[i].res = "Ok"
           /\ fates[i].pushed =
                 (IF KeyOf(pkgs[i]) \in DOMAIN meta0
                  THEN <<Krate(pkgs[i].name, pkgs[i].version,
                               CratesIo(meta0[KeyOf(pkgs[i])]))>>
                  ELSE <<>>)

\* C9 amended: it pushed that dependency exactly when its composite key is
\* in the file's metadata and no earlier record has looked the same key up,
\* and raised no error.
C9_RegistryIffKeyLeft ==
    \A i \in DOMAIN fates :
        RegistryNoChecksum(pkgs[i])
        => /\ fates[i].res = "Ok"
           /\ fates[i].pushed =
                 (IF KeyOf(pkgs[i]) \in DOMAIN meta0 /\ ~ConsumedBefore(i)
                  THEN <<Krate(pkgs[i].name, pkgs[i].version,
                               CratesIo(meta0[KeyOf(pkgs[i])]))>>
                  ELSE <<>>)

\* a file read to its end in which one record found its key, a second record
\* of the same key found it consumed, and a third had no key at all
C9_Witness ==
    /\ lresult = "Ok"
    /\ \E i, j, k \in DOMAIN fates :
          /\ i < j
          /\ RegistryNoChecksum(pkgs[i]) /\ RegistryNoChecksum(pkgs[j])
          /\ KeyOf(pkgs[i]) = KeyOf(pkgs[j])
          /\ fates[i].pushed # <<>>
          /\ fates[j].pushed = <<>>
          /\ RegistryNoChecksum(pkgs[k])
          /\ KeyOf(pkgs[k]) \notin DOMAIN meta0
          /\ fates[k].pushed = <<>>

\* C10: every consumed registry record with an inline checksum pushed exactly
\* one Registry dependency with that checksum and left the metadata as it
\* was.
C10_InlineChecksumWins ==
    \A i \in DOMAIN fates :
        RegistryInline(pkgs[i])
        => /\ fates[i].pushed =
                 <<Krate(pkgs[i].name, pkgs[i].version, CratesIo(pkgs[i].checksum.v))>>
           /\ fates[i].after = fates[i].before

\* an inline record met while the metadata held another checksum for the
\* same name and version
C10_Witness ==
    \E i \in DOMAIN fates :
        /\ RegistryInline(pkgs[i])
        /\ KeyOf(pkgs[i]) \in DOMAIN fates[i].before
        /\ fates[i].before[KeyOf(pkgs[i])] # pkgs[i].checksum.v
        /\ fates[i].pushed # <<>>

\* the number of characters of a UTF-8 string: its non-continuation bytes
CharLen(s) == Cardinality({i \in DOMAIN s : ~(s[i] >= 128 /\ s[i] <= 191)})

\* the first n characters of a UTF-8 string of at least n characters
FirstChars(s, n) ==
    LET ends == {k \in 0..Len(s) : CharLen(SubSeq(s, 1, k)) <= n}
    IN SubSeq(s, 1, CHOOSE k \in ends : \A m \in ends : m <= k)

\* a record whose source is a URL other than the public registry's locator
GitEntry(p) ==
    p.source.some /\ p.source.v # RegistryLocator /\ ParseUrl(p.source.v).res = "Ok"

\* the rev query parameter of a git record's URL
RevParam(p) == FindRev(QueryPairs(ParseUrl(p.source.v)))

\* C11: every consumed git record whose rev parameter is absent or shorter
\* than 7 characters raised an error that dropped it and let the loop go on;
\* every other consumed git record that pushed a dependency pushed a git
\* Source whose rev is exactly 7 characters long and is the first 7
\* characters of the rev parameter, whatever the fragment.
C11_RevIsFirstSevenChars ==
    \A i \in DOMAIN fates :
        GitEntry(pkgs[i])
        => IF ~RevParam(pkgs[i]).some \/ CharLen(RevParam(pkgs[i]).v) < RevLen
           THEN fates[i].pushed = <<>> /\ fates[i].res = "Ok"
           ELSE /\ fates[i].res = "Ok"
                /\ fates[i].pushed # <<>>
                   => /\ fates[i].pushed[1].source.tag = "Git"
                      /\ CharLen(fates[i].pushed[1].source.rev) = RevLen
                      /\ fates[i].pushed[1].source.rev =
                            FirstChars(RevParam(pkgs[i]).v, RevLen)

\* a record that read_lock_file is to skip for an error of its own: its
\* source does not parse as a URL, or has no revision, or a revision of
\* fewer than 7 characters, or does not canonicalize
InputError(p) ==
    /\ p.source.some
    /\ p.source.v # RegistryLocator
    /\ \/ ParseUrl(p.source.v).res = "Err"
       \/ ~RevParam(p).some
       \/ CharLen(RevParam(p).v) < RevLen
       \/ Canonicalize(ParseUrl(p.source.v)).res = "Err"

\* the records of a file without those that carry an input error
RECURSIVE WithoutInputErrors(_)
WithoutInputErrors(ps) ==
    IF ps = <<>> THEN <<>>
    ELSE (IF InputError(ps[1]) THEN <<>> ELSE <<ps[1]>>) \o WithoutInputErrors(Tail(ps))

\* what the loop of read_lock_file collects from the records ps, starting
\* with the metadata meta
RECURSIVE Collected(_, _)
Collected(ps, meta) ==
    IF ps = <<>> THEN <<>>
    ELSE LET r == ProcessRecord(ps[1], meta, <<>>)
         IN r.push \o Collected(Tail(ps), r.meta)

\* C12: every consumed record with an input error was skipped and the loop
\* went on; and a read_lock_file that got past reading the file returned Ok
\* with the dependencies it collects from the file without those records.
C12_InputErrorNeverFatal ==
    /\ \A i \in DOMAIN fates :
          InputError(pkgs[i]) => fates[i].pushed = <<>> /\ fates[i].res = "Ok"
    /\ (lpc = "Done" /\ lresult # "Err")
       => /\ lresult = "Ok"
          /\ lkrates = Collected(WithoutInputErrors(pkgs), meta0)

-----------------------------------------------------------------------------
(* Properties of a second locked_crates *)

\* the Sources of ctx.krates whose CloudId is not among the listed keys
MissingSources ==
    {krates[j].source : j \in {j \in DOMAIN krates : CloudId(krates[j]) \notin ListedKeys}}

\* the Sources a fetch was invoked for in this invocation
FetchedSources == {to_mirror[i].source : i \in FetchedTasks}

\* the Sources the first invocation uploaded, and those it had tasks for
PrevUploaded ==
    {prev.to_mirror[k].source : k \in {k \in DOMAIN prev.uploadRes : prev.uploadRes[k] = "Ok"}}
PrevScheduled == {prev.to_mirror[k].source : k \in DOMAIN prev.to_mirror}

\* every transfer of the first invocation succeeded
PrevAllSucceeded ==
    /\ prev.result = "Ok"
    /\ \A k \in DOMAIN prev.fetchRes : prev.fetchRes[k] = "Ok" /\ prev.uploadRes[k] = "Ok"

\* C13: in a second invocation with the same ctx.krates, against the backend
\* as the first one left it, every fetch and upload is for a Source whose
\* CloudId is missing from the keys now listed and that the first
\* invocation did not upload; when the second invocation has returned after
\* a successful list(), the Sources it fetched are exactly those still
\* missing, which after a first invocation that listed successfully are the
\* Sources it had tasks for and did not upload; and after a first invocation
\* in which every transfer succeeded the second one invokes no fetch and no
\* upload.
C13_RerunConverges ==
    rerun
    => /\ \A i \in FetchedTasks \cup UploadedTasks :
             /\ CloudId(to_mirror[i]) \notin ListedKeys
             /\ to_mirror[i].source \notin PrevUploaded
       /\ (pc = "Done" /\ listed.res = "Ok")
          => /\ FetchedSources = MissingSources
             /\ prev.result = "Ok" => FetchedSources = PrevScheduled \ PrevUploaded
       /\ PrevAllSucceeded
          => /\ FetchedTasks = {} /\ UploadedTasks = {}
             /\ pc # "ParallelTransfer"

\* a second invocation that has returned after fetching and uploading the
\* Source whose fetch failed the first time, and not the Source the first
\* invocation uploaded
C13_Witness ==
    /\ rerun
    /\ pc = "Done"
    /\ result = "Ok"
    /\ PrevUploaded # {}
    /\ \E k \in DOMAIN prev.fetchRes : prev.fetchRes[k] = "Err"
    /\ \E i \in UploadedTasks : uploadRes[i] = "Ok"
    /\ Cardinality(FetchedSources) = 1

\* what the consumed records pushed, record after record
RECURSIVE PushedInOrder(_)
PushedInOrder(f) ==
    IF f = <<>> THEN <<>> ELSE f[1].pushed \o PushedInOrder(Tail(f))

\* a consumed record that is not skipped: a registry record with an inline
\* checksum or with its key left in the metadata, or a git record that
\* from_git_url accepts
Survives(i) ==
    \/ RegistryInline(pkgs[i])
    \/ RegistryNoChecksum(pkgs[i]) /\ KeyOf(pkgs[i]) \in DOMAIN fates[i].before
    \/ GitEntry(pkgs[i]) /\ FromGitUrl(ParseUrl(pkgs[i].source.v)).res = "Ok"

\* C18: every consumed record pushed at most one dependency, none when it is
\* skipped and otherwise one with the record's name and version; the
\* dependencies collected so far are those pushes in the order of the
\* records; and a read_lock_file that returned Ok has consumed every record,
\* so that what it returns is the record sequence with the skipped records
\* removed, not reordered and with nothing twice.
C18_OrderPreserved ==
    /\ \A i \in DOMAIN fates :
          IF Survives(i)
          THEN /\ Len(fates[i].pushed) = 1
               /\ fates[i].pushed[1].name = pkgs[i].name
               /\ fates[i].pushed[1].version = pkgs[i].version
          ELSE fates[i].pushed = <<>>
    /\ lkrates = PushedInOrder(fates)
    /\ lresult = "Ok" => Len(fates) = Len(pkgs)

\* a file of three records read to its end: a git record kept, a record
\* without a source skipped, and a registry record of another name kept
\* after them
C18_Witness ==
    /\ lresult = "Ok"
    /\ Len(pkgs) = 3
    /\ GitEntry(pkgs[1])
    /\ ~pkgs[2].source.some
    /\ RegistryInline(pkgs[3])
    /\ pkgs[1].name # pkgs[3].name
    /\ Len(lkrates) = 2
    /\ lkrates[1].name = pkgs[1].name
    /\ lkrates[2].name = pkgs[3].name

====
